---- MODULE Spec2Model ----
(***************************************************************************)
(* Model of the auth service: credential verification (verifyPassword),    *)
(* the access / refresh / session token lifecycle of the auth controller,  *)
(* the authenticateToken middleware, and the identity event consumers.     *)
(*                                                                         *)
(* Time is counted in days: the JWT and the session live 1 day, a refresh  *)
(* token 7 days.                                                           *)
(***************************************************************************)
EXTENDS Integers, Sequences, FiniteSets, TLC

VARIABLES
    users,          \* User table: id -> row
    sessions,       \* Session table: set of rows
    refreshTokens,  \* RefreshToken table: set of rows
    issued,         \* access tokens handed out and still held by clients
    now,            \* the clock, in days
    nextTok,        \* number of opaque token values drawn so far
    resp,           \* outcome of the last request, event or job
    vIn,            \* verifyPassword harness: the call's arguments
    vOut,           \* verifyPassword harness: the call's outcome
    pending         \* requests between two of their store calls (interleaving)

vars == <<users, sessions, refreshTokens, issued, now, nextTok, resp, vIn, vOut, pending>>

storeVars == <<users, sessions, refreshTokens>>

(***************************************************************************)
(* JavaScript values that reach the credential code.  A string is kept by  *)
(* what the code looks at: its content (id), its length, its character     *)
(* class, and, when it starts like a bcrypt hash, the version prefix, the  *)
(* number of cost digits, the cost, the salt and whether the salt decodes. *)
(* Two values are the same JavaScript value iff they are the same record.  *)
(***************************************************************************)
Text(name, n, class) ==
    [typ |-> "string", id |-> <<name>>, len |-> n, cs |-> class,
     pre |-> "", digits |-> 0, cost |-> 0, salt |-> "", saltOk |-> FALSE]

Undefined ==
    [typ |-> "undefined", id |-> <<"undefined">>, len |-> 0, cs |-> "other",
     pre |-> "", digits |-> 0, cost |-> 0, salt |-> "", saltOk |-> FALSE]

Number123 ==
    [typ |-> "number", id |-> <<"123">>, len |-> 0, cs |-> "other",
     pre |-> "", digits |-> 0, cost |-> 0, salt |-> "", saltOk |-> FALSE]

\* A string "$2?$<cost>$<53 characters>" that no hashing of a modelled password gives.
BcryptLike(name, prefix, nDigits, c, ok) ==
    [typ |-> "string", id |-> <<name>>, len |-> 4 + nDigits + 1 + 53, cs |-> "other",
     pre |-> prefix, digits |-> nDigits, cost |-> c, salt |-> name, saltOk |-> ok]

BcryptRounds == 12

Salts == {"saltA", "saltB"}

\* bcrypt.hash(s, rounds) with the salt the library drew; rejects a non-string.
BcryptHashWith(s, c, sl) ==
    [typ |-> "string", id |-> s.id \o <<"bcrypt", sl>>, len |-> 60, cs |-> "other",
     pre |-> "$2a$", digits |-> 2, cost |-> c, salt |-> sl, saltOk |-> TRUE]

\* crypto.createHash("sha256").update(password).digest("hex"): 64 lowercase hex characters.
hashPasswordSHA256(password) ==
    [typ |-> "string", id |-> Append(password.id, "sha256"), len |-> 64, cs |-> "hexlower",
     pre |-> "", digits |-> 0, cost |-> 0, salt |-> "", saltOk |-> FALSE]

\* The same digest written with uppercase hex letters (as another service may send it).
UpperHex(s) == [s EXCEPT !.id = Append(s.id, "upper"), !.cs = "hexupper"]

\* /^\$2[aby]\$\d{1,2}\$.{53}$/.test(x): a non-string is tested as its string form.
bcryptPattern(x) ==
    /\ x.typ = "string"
    /\ x.pre \in {"$2a$", "$2b$", "$2y$"}
    /\ x.digits \in {1, 2}
    /\ x.len = 4 + x.digits + 1 + 53

\* storedHash.length === 64 && /^[a-f0-9]+$/i.test(storedHash)
IsHex64(x) ==
    /\ x.typ = "string"
    /\ x.len = 64
    /\ x.cs \in {"hexlower", "hexupper"}

\* bcrypt.compare(s, hash) of bcryptjs: "true", "false", or "throw" (the promise rejects).
BcryptCompare(s, hash) ==
    IF s.typ # "string" \/ hash.typ # "string" THEN "throw"
    ELSE IF hash.len # 60 THEN "false"
    ELSE IF hash.pre \notin {"$2a$", "$2b$", "$2y$"} \/ hash.digits # 2 THEN "throw"
    ELSE IF hash.cost < 4 \/ hash.cost > 31 \/ ~hash.saltOk THEN "throw"
    ELSE IF [BcryptHashWith(s, hash.cost, hash.salt) EXCEPT !.pre = hash.pre] = hash
         THEN "true" ELSE "false"

\* Variant of verifyPassword that tries plain equality before the digest branch.
verifyPasswordPlainFirst(plainPassword, storedHash) ==
    IF plainPassword = storedHash THEN [result |-> "true", log |-> "direct"]
    ELSE IF bcryptPattern(storedHash)
    THEN [result |-> BcryptCompare(plainPassword, storedHash), log |-> "bcrypt"]
    ELSE IF IsHex64(storedHash) /\ plainPassword.typ = "string"
    THEN [result |-> IF hashPasswordSHA256(plainPassword) = storedHash
                     THEN "true" ELSE "false", log |-> "sha256"]
    ELSE [result |-> "false", log |-> "direct"]

\* Variant of verifyPassword without the digest branch.
verifyPasswordNoDigest(plainPassword, storedHash) ==
    IF bcryptPattern(storedHash)
    THEN [result |-> BcryptCompare(plainPassword, storedHash), log |-> "bcrypt"]
    ELSE IF storedHash.typ = "undefined"
    THEN [result |-> "throw", log |-> "none"]
    ELSE [result |-> IF plainPassword = storedHash THEN "true" ELSE "false",
          log |-> "direct"]

\* The outcome of verifyPassword and the branch it logged.
verifyPassword(plainPassword, storedHash) ==
    IF bcryptPattern(storedHash)
    THEN [result |-> BcryptCompare(plainPassword, storedHash), log |-> "bcrypt"]
    ELSE IF storedHash.typ = "undefined"
    THEN [result |-> "throw", log |-> "none"]       \* TypeError reading .length
    ELSE IF IsHex64(storedHash)
    THEN IF plainPassword.typ # "string"
         THEN [result |-> "throw", log |-> "sha256"] \* hash.update(non-string) throws
         ELSE [result |-> IF hashPasswordSHA256(plainPassword) = storedHash
                          THEN "true" ELSE "false",
               log |-> "sha256"]
    ELSE [result |-> IF plainPassword = storedHash THEN "true" ELSE "false",
          log |-> "direct"]

(***************************************************************************)
(* Inputs of the credential code.                                          *)
(***************************************************************************)
pwA == Text("secret123", 9, "other")
pwB == Text("secret124", 9, "other")
pwC == Text("pw", 2, "other")
\* A password that is itself 64 hexadecimal characters.
pwHex == Text("0f0f..64hex", 64, "hexlower")

Passwords == {pwA, pwB, pwC, pwHex}

\* Stored strings of the bcrypt shape that bcrypt cannot use or that hash nothing.
badCost == BcryptLike("cost99", "$2a$", 2, 99, TRUE)
oneDigit == BcryptLike("cost5", "$2b$", 1, 5, TRUE)
noHash == BcryptLike("nohash", "$2y$", 2, 10, TRUE)
badRevision == BcryptLike("rev2x", "$2x$", 2, 10, TRUE)

Encodings == {"adaptive", "digest", "digestUpper", "plain"}

Encode(enc, q, sl) ==
    CASE enc = "adaptive" -> BcryptHashWith(q, BcryptRounds, sl)
      [] enc = "digest" -> hashPasswordSHA256(q)
      [] enc = "digestUpper" -> UpperHex(hashPasswordSHA256(q))
      [] OTHER -> q

Idle == [kind |-> "idle"]

\* An access token: the signed payload with the claims jwt.sign adds.  NoAccess: none.
NoAccess == [form |-> "none", userId |-> 0, email |-> "", role |-> "",
             iat |-> 0, exp |-> 0, key |-> ""]

\* What a caller may pass as the plain password.
PlainInputs == Passwords \cup {hashPasswordSHA256(pwA), Number123, Undefined}

VerifyCalls ==
    {[kind |-> "call", plain |-> p, stored |-> Encode(e, q, sl), enc |-> e, of |-> q] :
        p \in PlainInputs, e \in Encodings, q \in Passwords, sl \in Salts}
    \cup
    {[kind |-> "call", plain |-> p, stored |-> s, enc |-> "malformed", of |-> s] :
        p \in PlainInputs, s \in {badCost, oneDigit, noHash, badRevision, Undefined}}

InitReply ==
    [op |-> "init", status |-> 0, error |-> "", access |-> NoAccess, bearer |-> NoAccess,
     reqUser |-> NoAccess, event |-> "", uid |-> 0, info |-> <<>>, pw |-> Undefined]

StoreInit ==
    /\ users = <<>>
    /\ sessions = {}
    /\ refreshTokens = {}
    /\ issued = {}
    /\ now = 0
    /\ nextTok = 0
    /\ resp = InitReply
    /\ pending = {}

VerifyInit ==
    /\ StoreInit
    /\ vIn \in VerifyCalls
    /\ vOut = Idle

VerifyCall ==
    /\ vOut = Idle
    /\ vOut' = verifyPassword(vIn.plain, vIn.stored)
    /\ UNCHANGED <<users, sessions, refreshTokens, issued, now, nextTok, resp, vIn, pending>>

VerifyNext == VerifyCall

SpecVerify == VerifyInit /\ [][VerifyNext]_vars

(***************************************************************************)
(* The service: configuration, rows, tokens.                               *)
(***************************************************************************)
JwtExpiresIn == 1
RefreshTokenExpiresIn == 7
SessionExpiresIn == 1

MaxTime == 8
MaxTok == 3

Emails == {"a@x.com", "b@x.com"}
Usernames == {"a", "b@x.com"}
Roles == {"USER", "ADMIN"}

UserIds == DOMAIN users
\* An id no User row has: ids are drawn in order and emails are unique.
UnknownUserId == Cardinality(Emails) + 1

GarbageToken == [NoAccess EXCEPT !.form = "garbage"]

\* jwt.sign(payload, JWT_SECRET, { expiresIn: JWT_EXPIRES_IN })
jwtSign(id, em, rl) ==
    [form |-> "jwt", userId |-> id, email |-> em, role |-> rl,
     iat |-> now, exp |-> now + JwtExpiresIn, key |-> "JWT_SECRET"]

\* Variant of jwtVerifies that ignores exp.
jwtVerifiesNoExpiry(token) ==
    /\ token.form = "jwt"
    /\ token.key = "JWT_SECRET"

\* jwt.verify(token, JWT_SECRET) returns the payload; FALSE here stands for its throwing.
jwtVerifies(token) ==
    /\ token.form = "jwt"
    /\ token.key = "JWT_SECRET"
    /\ now < token.exp

Forged(token) == [token EXCEPT !.key = "other-key"]

\* The Authorization header: absent, one word (no space), or "Bearer <token>".
Headers ==
    {[scheme |-> "absent", tok |-> NoAccess], [scheme |-> "single", tok |-> NoAccess],
     [scheme |-> "Bearer", tok |-> GarbageToken]}
    \cup {[scheme |-> "Bearer", tok |-> t] : t \in issued}
    \cup {[scheme |-> "Bearer", tok |-> Forged(t)] : t \in issued}

Reply(o, st, er) == [InitReply EXCEPT !.op = o, !.status = st, !.error = er]

\* const token = authHeader && authHeader.split(' ')[1]
BearerOf(header) == IF header.scheme = "Bearer" THEN header.tok ELSE NoAccess

\* Variant of authenticateToken that answers a missing token like an invalid one.
authenticateTokenSame(o, header) ==
    LET token == BearerOf(header) IN
    IF token.form = "none"
    THEN Reply(o, 403, "Invalid or expired token")
    ELSE IF jwtVerifies(token)
    THEN [Reply(o, 0, "") EXCEPT !.bearer = token, !.reqUser = token]
    ELSE [Reply(o, 403, "Invalid or expired token") EXCEPT !.bearer = token]

\* Variant of authenticateToken that looks the user up and rejects an inactive one.
authenticateTokenActiveOnly(o, header) ==
    LET token == BearerOf(header) IN
    IF token.form = "none"
    THEN Reply(o, 401, "Access token required")
    ELSE IF /\ jwtVerifies(token)
            /\ token.userId \in DOMAIN users
            /\ users[token.userId].isActive
    THEN [Reply(o, 0, "") EXCEPT !.bearer = token, !.reqUser = token]
    ELSE [Reply(o, 403, "Invalid or expired token") EXCEPT !.bearer = token]

\* authenticateToken: the reply it sends itself, or status 0 when it calls next() with
\* the decoded payload attached to the request.
authenticateToken(o, header) ==
    LET token == BearerOf(header) IN
    IF token.form = "none"
    THEN Reply(o, 401, "Access token required")
    ELSE IF jwtVerifies(token)
    THEN [Reply(o, 0, "") EXCEPT !.bearer = token, !.reqUser = token]
    ELSE [Reply(o, 403, "Invalid or expired token") EXCEPT !.bearer = token]

\* authorizeRole(roles), given the request's user (NoAccess when none is attached).
authorizeRole(o, roles, user) ==
    IF user.form = "none" THEN Reply(o, 401, "User not authenticated")
    ELSE IF user.role \notin roles THEN Reply(o, 403, "Insufficient permissions")
    ELSE [Reply(o, 0, "") EXCEPT !.reqUser = user]

\* The access token the client holds once t is handed out: the model follows one
\* token at a time, the latest.
Keep(t) == {t}

RowsOf(table, id) == {r \in table : r.userId = id}

\* The three tables as one value.
Store == [users |-> users, sessions |-> sessions, refreshTokens |-> refreshTokens]

Init ==
    /\ StoreInit
    /\ vIn = Idle
    /\ vOut = Idle

\* The instants at which the clock is read: the days around the expiry of a JWT or
\* session minted in the first days, and the days around the expiry of a refresh token.
Instants ==
    {t \in 0 .. MaxTime : t <= JwtExpiresIn \/ t >= RefreshTokenExpiresIn}

\* Time passes to the next such instant.
Tick ==
    /\ \E t \in Instants : t > now
    /\ now' = CHOOSE t \in Instants : t > now /\ \A u \in Instants : u > now => t <= u
    /\ UNCHANGED <<users, sessions, refreshTokens, issued, nextTok, resp, vIn, vOut, pending>>

(***************************************************************************)
(* Public routes.                                                          *)
(***************************************************************************)
Missing == Text("", 0, "other")

Truthy(x) == x.typ # "undefined" /\ x # Missing



HashSalts == {"saltA"}
RegisterPasswords == {pwA, Missing, Number123}
LoginPasswords == {pwA, pwB, Missing, Number123}
CurrentPasswords == {pwA, pwB, Missing}
NewPasswords == {pwB, pwC, Number123}
EventEmails == {"b@x.com"}
EventPasswords == {Undefined, hashPasswordSHA256(pwA)}
EventHashes == {Undefined, BcryptHashWith(pwA, BcryptRounds, "saltA")}
RegisterRoles == {"ADMIN"}
EventRoles == {"USER"}
EventActive == {TRUE}
TokenValues == 0 .. MaxTok
EventUserIds == 1 .. UnknownUserId

\* Variant of registerHash that stores the password as submitted.
registerHashPlain(password, sl) == password

\* const hashedPassword = await bcrypt.hash(password, 12), sl being its random salt
registerHash(password, sl) == BcryptHashWith(password, BcryptRounds, sl)

\* const hashedNewPassword = await bcrypt.hash(newPassword, 12)
changeHash(newPassword, sl) == BcryptHashWith(newPassword, BcryptRounds, sl)

UserRow(em, un, pw, rl, act) ==
    [email |-> em, username |-> un, password |-> pw, role |-> rl, isActive |-> act]

TokenRow(id, value, expiry) == [userId |-> id, token |-> value, expiresAt |-> expiry]

\* POST /auth/register
Register(email, username, password, role, sl) ==
    /\ UNCHANGED <<now, vIn, vOut, pending>>
    /\ IF email = "" \/ username = "" \/ ~Truthy(password)
       THEN /\ resp' = Reply("register", 400, "Email, username, and password are required")
            /\ UNCHANGED <<users, sessions, refreshTokens, issued, nextTok>>
       ELSE IF \E id \in UserIds : users[id].email = email \/ users[id].username = username
       THEN /\ resp' = Reply("register", 400,
                             "User with this email or username already exists")
            /\ UNCHANGED <<users, sessions, refreshTokens, issued, nextTok>>
       ELSE IF password.typ # "string"
       THEN /\ resp' = Reply("register", 500, "Failed to register user")
            /\ UNCHANGED <<users, sessions, refreshTokens, issued, nextTok>>
       ELSE /\ nextTok < MaxTok
            /\ LET id == Len(users) + 1
                   accessToken == jwtSign(id, email, role)
               IN /\ users' = Append(users,
                                UserRow(email, username, registerHash(password, sl),
                                        role, TRUE))
                  /\ nextTok' = nextTok + 1
                  /\ refreshTokens' = refreshTokens \cup
                        {TokenRow(id, nextTok + 1, now + RefreshTokenExpiresIn)}
                  /\ issued' = Keep(accessToken)
                  /\ resp' = [Reply("register", 201, "") EXCEPT
                                !.access = accessToken, !.event = "user.registered",
                                !.uid = id, !.info = <<nextTok + 1>>, !.pw = password]
                  /\ UNCHANGED sessions

\* POST /auth/login; user is the row findFirst returned (0: none), limit the number of
\* token values that may be drawn in all.
LoginWithin(limit, emailOrUsername, password, id) ==
    /\ UNCHANGED <<users, now, vIn, vOut, pending>>
    /\ IF emailOrUsername = "" \/ ~Truthy(password)
       THEN /\ resp' = Reply("login", 400, "Email/username and password are required")
            /\ UNCHANGED <<sessions, refreshTokens, issued, nextTok>>
       ELSE IF id = 0
       THEN /\ resp' = Reply("login", 401, "Invalid credentials")
            /\ UNCHANGED <<sessions, refreshTokens, issued, nextTok>>
       ELSE LET v == verifyPassword(password, users[id].password) IN
            IF v.result = "throw"
            THEN /\ resp' = Reply("login", 500, "Failed to login")
                 /\ UNCHANGED <<sessions, refreshTokens, issued, nextTok>>
            ELSE IF v.result = "false"
            THEN /\ resp' = Reply("login", 401, "Invalid credentials")
                 /\ UNCHANGED <<sessions, refreshTokens, issued, nextTok>>
            ELSE /\ nextTok + 2 <= limit
                 /\ LET accessToken == jwtSign(id, users[id].email, users[id].role)
                    IN /\ nextTok' = nextTok + 2
                       /\ refreshTokens' = refreshTokens \cup
                            {TokenRow(id, nextTok + 1, now + RefreshTokenExpiresIn)}
                       /\ sessions' = sessions \cup
                            {TokenRow(id, nextTok + 2, now + SessionExpiresIn)}
                       /\ issued' = Keep(accessToken)
                       /\ resp' = [Reply("login", 200, "") EXCEPT
                                     !.access = accessToken, !.event = "user.loggedIn",
                                     !.uid = id, !.info = <<nextTok + 1, nextTok + 2>>,
                                     !.pw = password]

LoginAs(emailOrUsername, password, id) == LoginWithin(MaxTok, emailOrUsername, password, id)

\* prisma.user.findFirst({ where: { OR: [{email}, {username}], isActive: true } })
LoginMatches(emailOrUsername) ==
    {id \in UserIds : /\ \/ users[id].email = emailOrUsername
                         \/ users[id].username = emailOrUsername
                      /\ users[id].isActive}

Login(emailOrUsername, password) ==
    IF LoginMatches(emailOrUsername) = {}
    THEN LoginAs(emailOrUsername, password, 0)
    ELSE \E id \in LoginMatches(emailOrUsername) : LoginAs(emailOrUsername, password, id)

\* Variant of RefreshPayload that signs for the first user whatever the row's owner.
RefreshPayloadFirstUser(row) == jwtSign(1, users[1].email, users[1].role)

\* The payload refresh signs, from the row's user as the store holds it now.
RefreshPayload(row) ==
    jwtSign(row.userId, users[row.userId].email, users[row.userId].role)

\* Variant of RefreshExpired without the expiry test.
RefreshExpiredNever(row) == FALSE

\* tokenRecord.expiresAt < new Date()
RefreshExpired(row) == row.expiresAt < now

\* Variant of RefreshInactive without the isActive test.
RefreshInactiveNever(row) == FALSE

\* !tokenRecord.user.isActive
RefreshInactive(row) == ~users[row.userId].isActive

\* POST /auth/refresh; value 0 stands for a missing refreshToken field.
RefreshToken(value) ==
    /\ UNCHANGED <<users, sessions, refreshTokens, now, nextTok, vIn, vOut, pending>>
    /\ LET found == {r \in refreshTokens : r.token = value} IN
       IF value = 0
       THEN /\ resp' = Reply("refresh", 400, "Refresh token is required")
            /\ UNCHANGED issued
       ELSE IF found = {} \/ \E r \in found : RefreshExpired(r)
       THEN /\ resp' = [Reply("refresh", 401, "Invalid or expired refresh token")
                            EXCEPT !.info = <<value>>]
            /\ UNCHANGED issued
       ELSE LET row == CHOOSE r \in found : TRUE IN
            IF RefreshInactive(row)
            THEN /\ resp' = [Reply("refresh", 401, "User account is inactive")
                                EXCEPT !.info = <<value>>, !.uid = row.userId]
                 /\ UNCHANGED issued
            ELSE /\ issued' = Keep(RefreshPayload(row))
                 /\ resp' = [Reply("refresh", 200, "") EXCEPT
                               !.access = RefreshPayload(row), !.event = "token.refreshed",
                               !.uid = row.userId, !.info = <<value>>]

(***************************************************************************)
(* Protected routes: authenticateToken runs first; the handler runs only   *)
(* when the middleware called next() (status 0).                           *)
(***************************************************************************)
\* GET /auth/me
Me(header) ==
    /\ UNCHANGED <<users, sessions, refreshTokens, issued, now, nextTok, vIn, vOut, pending>>
    /\ LET a == authenticateToken("me", header)
           userId == a.reqUser.userId
       IN IF a.status # 0 THEN resp' = a
          ELSE IF userId = 0
          THEN resp' = [a EXCEPT !.status = 401, !.error = "User not authenticated"]
          ELSE IF userId \notin UserIds
          THEN resp' = [a EXCEPT !.status = 404, !.error = "User not found"]
          ELSE resp' = [a EXCEPT !.status = 200, !.uid = userId]

\* Variant of LogoutKeeps whose deleteMany has no where clause.
LogoutKeepsNothing(table, value) ==
    IF value # 0 THEN {} ELSE table

\* The rows logout leaves: a value 0 stands for a field the body does not carry.
LogoutKeeps(table, value) ==
    IF value # 0 THEN {r \in table : r.token # value} ELSE table

\* POST /auth/logout, once authenticateToken has attached a (the request's user).
logout(a, refreshToken, sessionToken) ==
    /\ refreshTokens' = LogoutKeeps(refreshTokens, refreshToken)
    /\ sessions' = LogoutKeeps(sessions, sessionToken)
    /\ resp' = [a EXCEPT !.status = 200, !.event = "user.loggedOut",
                         !.uid = a.reqUser.userId]

Logout(header) ==
    /\ UNCHANGED <<users, issued, now, nextTok, vIn, vOut, pending>>
    /\ LET a == authenticateToken("logout", header) IN
       IF a.status # 0
       THEN /\ resp' = a
            /\ UNCHANGED <<sessions, refreshTokens>>
       ELSE \E refreshToken \in TokenValues, sessionToken \in TokenValues :
               logout(a, refreshToken, sessionToken)

\* Variant of LogoutAllStore that deletes the sessions only.
LogoutAllStoreSessionsOnly(st, userId) ==
    [users |-> st.users,
     sessions |-> st.sessions \ RowsOf(st.sessions, userId),
     refreshTokens |-> st.refreshTokens]

\* Promise.all([session.deleteMany({ where: { userId } }),
\*              refreshToken.deleteMany({ where: { userId } })])
LogoutAllStore(st, userId) ==
    [users |-> st.users,
     sessions |-> st.sessions \ RowsOf(st.sessions, userId),
     refreshTokens |-> st.refreshTokens \ RowsOf(st.refreshTokens, userId)]

\* A store call that may reject (the store is unavailable for it); "none": all succeed.
StoreCalls == {"none", "session.deleteMany", "refreshToken.deleteMany"}

\* The same Promise.all when the call `failed` rejects: the other call takes effect.
LogoutAllStoreWith(st, userId, failed) ==
    IF failed = "none" THEN LogoutAllStore(st, userId)
    ELSE [users |-> st.users,
          sessions |-> IF failed = "session.deleteMany" THEN st.sessions
                       ELSE st.sessions \ RowsOf(st.sessions, userId),
          refreshTokens |-> IF failed = "refreshToken.deleteMany" THEN st.refreshTokens
                            ELSE st.refreshTokens \ RowsOf(st.refreshTokens, userId)]

\* POST /auth/logout-all, once authenticateToken has attached a; a rejected store call
\* is caught by the handler.
logoutAll(a, failed) ==
    LET userId == a.reqUser.userId IN
    IF userId = 0
    THEN /\ resp' = [a EXCEPT !.status = 401, !.error = "User not authenticated"]
         /\ UNCHANGED <<sessions, refreshTokens>>
    ELSE /\ sessions' = LogoutAllStoreWith(Store, userId, failed).sessions
         /\ refreshTokens' = LogoutAllStoreWith(Store, userId, failed).refreshTokens
         /\ resp' = IF failed = "none"
                    THEN [a EXCEPT !.status = 200, !.event = "user.loggedOutAll",
                                   !.uid = userId]
                    ELSE [a EXCEPT !.status = 500,
                                   !.error = "Failed to logout from all devices",
                                   !.uid = userId, !.info = <<failed>>]

LogoutAllWith(header, failed) ==
    /\ UNCHANGED <<users, issued, now, nextTok, vIn, vOut, pending>>
    /\ LET a == authenticateToken("logoutAll", header)
       IN IF a.status # 0
          THEN /\ resp' = a
               /\ UNCHANGED <<sessions, refreshTokens>>
          ELSE logoutAll(a, failed)

\* POST /auth/logout-all with the store available.
LogoutAll(header) == LogoutAllWith(header, "none")

\* Variant of TooShort without the length test.
TooShortNever(x) == FALSE

\* newPassword.length < 6 (a number has no length: the test is false)
TooShort(x) == x.typ = "string" /\ x.len < 6

\* Variant of PasswordChangeStore without the cascade.
PasswordChangeStoreKeepRows(st, userId, hashed) ==
    [users |-> [st.users EXCEPT ![userId].password = hashed],
     sessions |-> st.sessions,
     refreshTokens |-> st.refreshTokens]

\* user.update({ data: { password } }), then Promise.all of the two deleteMany.
PasswordChangeStore(st, userId, hashed) ==
    [users |-> [st.users EXCEPT ![userId].password = hashed],
     sessions |-> st.sessions \ RowsOf(st.sessions, userId),
     refreshTokens |-> st.refreshTokens \ RowsOf(st.refreshTokens, userId)]

\* The same store calls when the deleteMany `failed` rejects: the password is already
\* written and the other deleteMany takes effect.
PasswordChangeStoreWith(st, userId, hashed, failed) ==
    IF failed = "none" THEN PasswordChangeStore(st, userId, hashed)
    ELSE [users |-> [st.users EXCEPT ![userId].password = hashed],
          sessions |-> IF failed = "session.deleteMany" THEN st.sessions
                       ELSE st.sessions \ RowsOf(st.sessions, userId),
          refreshTokens |-> IF failed = "refreshToken.deleteMany" THEN st.refreshTokens
                            ELSE st.refreshTokens \ RowsOf(st.refreshTokens, userId)]

\* changePassword up to bcrypt.hash: the reply of the check that rejects the request,
\* or a itself (status 0) when the request goes on to the store writes.
changePasswordCheck(a, currentPassword, newPassword) ==
    LET userId == a.reqUser.userId
        Fail(st, er) == [a EXCEPT !.status = st, !.error = er]
    IN IF userId = 0 THEN Fail(401, "User not authenticated")
       ELSE IF ~Truthy(currentPassword) \/ ~Truthy(newPassword)
       THEN Fail(400, "Current password and new password are required")
       ELSE IF TooShort(newPassword)
       THEN Fail(400, "New password must be at least 6 characters long")
       ELSE IF userId \notin UserIds THEN Fail(404, "User not found")
       ELSE LET ok == BcryptCompare(currentPassword, users[userId].password) IN
            IF ok = "throw" THEN Fail(500, "Failed to change password")
            ELSE IF ok = "false" THEN Fail(400, "Current password is incorrect")
            ELSE IF newPassword.typ # "string"
            THEN Fail(500, "Failed to change password")
            ELSE a

\* PUT /auth/change-password, once authenticateToken has attached a (the request's user);
\* a rejected deleteMany is caught by the handler.
changePasswordWith(a, currentPassword, newPassword, sl, failed) ==
    LET userId == a.reqUser.userId
        checked == changePasswordCheck(a, currentPassword, newPassword)
    IN IF checked.status # 0
       THEN /\ resp' = checked
            /\ UNCHANGED <<users, sessions, refreshTokens>>
       ELSE      /\ LET st == PasswordChangeStoreWith(Store, userId,
                                       changeHash(newPassword, sl), failed)
                    IN /\ users' = st.users
                       /\ sessions' = st.sessions
                       /\ refreshTokens' = st.refreshTokens
                 /\ resp' = IF failed = "none"
                            THEN [a EXCEPT !.status = 200,
                                           !.event = "user.passwordChanged",
                                           !.uid = userId, !.pw = newPassword]
                            ELSE [a EXCEPT !.status = 500,
                                           !.error = "Failed to change password",
                                           !.uid = userId,
                                           !.info = <<failed, currentPassword,
                                                      newPassword>>]

\* PUT /auth/change-password with the store available.
changePassword(a, currentPassword, newPassword, sl) ==
    changePasswordWith(a, currentPassword, newPassword, sl, "none")

ChangePassword(header) ==
    /\ UNCHANGED <<issued, now, nextTok, vIn, vOut, pending>>
    /\ LET a == authenticateToken("changePassword", header) IN
       IF a.status # 0
       THEN /\ resp' = a
            /\ UNCHANGED <<users, sessions, refreshTokens>>
       ELSE \E c \in CurrentPasswords, n \in NewPasswords, sl \in HashSalts :
               changePassword(a, c, n, sl)

(***************************************************************************)
(* Event consumers.  Status 0: processed; status -1: the error was caught  *)
(* and logged.                                                             *)
(***************************************************************************)
\* Variant of finalPassword that hashes a password that came without hashedPassword.
finalPasswordRehash(password, hashedPassword) ==
    IF Truthy(hashedPassword) THEN hashedPassword
    ELSE BcryptHashWith(password, BcryptRounds, "saltA")

\* The credential the user.created consumer stores.
finalPassword(password, hashedPassword) ==
    IF Truthy(hashedPassword) THEN hashedPassword ELSE password

\* The unique indexes of the User table (email, username).
UniqueViolation(row) ==
    \E id \in UserIds : users[id].email = row.email \/ users[id].username = row.username

\* Variant of userCreate that overwrites the row that has the email (an upsert).
userUpsert(row) ==
    LET same == {id \in UserIds : users[id].email = row.email} IN
    IF same = {} THEN [ok |-> TRUE, users |-> Append(users, row), uid |-> Len(users) + 1]
    ELSE LET id == CHOOSE i \in same : TRUE
         IN [ok |-> TRUE, users |-> [users EXCEPT ![id] = row], uid |-> id]

\* prisma.user.create({ data: row }): it rejects when a unique index is violated and
\* inserts the row otherwise.
userCreate(row) ==
    IF UniqueViolation(row) THEN [ok |-> FALSE, users |-> users, uid |-> 0]
    ELSE [ok |-> TRUE, users |-> Append(users, row), uid |-> Len(users) + 1]

\* Variant of NoCredential that lets every payload through.
NoCredentialNever(password, hashedPassword) == FALSE

\* The else branch of the credential choice: neither field is truthy.
NoCredential(password, hashedPassword) == ~Truthy(hashedPassword) /\ ~Truthy(password)

UserCreated(email, password, hashedPassword, role, isActive) ==
    /\ UNCHANGED <<sessions, refreshTokens, issued, now, nextTok, vIn, vOut, pending>>
    /\ LET row == UserRow(email, email, finalPassword(password, hashedPassword),
                          role, isActive)
           created == userCreate(row)
       IN IF NoCredential(password, hashedPassword)
          THEN /\ resp' = Reply("user.created", -1,
                                "Neither password nor hashedPassword provided")
               /\ UNCHANGED users
          ELSE IF ~created.ok
          THEN /\ resp' = Reply("user.created", -1, "Unique constraint failed")
               /\ UNCHANGED users
          ELSE /\ users' = created.users
               /\ resp' = [Reply("user.created", 0, "") EXCEPT !.uid = created.uid]

ProfileUpdated(userId) ==
    /\ UNCHANGED <<users, sessions, refreshTokens, issued, now, nextTok, vIn, vOut, pending>>
    /\ resp' = IF userId \in UserIds
               THEN [Reply("user.profileUpdated", 0, "") EXCEPT !.uid = userId]
               ELSE [Reply("user.profileUpdated", -1, "Record to update not found")
                        EXCEPT !.uid = userId]

\* Variant of DeactivateStore that leaves the refresh tokens in place.
DeactivateStoreKeepTokens(st, userId, failed) ==
    [users |-> IF userId \in DOMAIN st.users /\ failed # "user.update"
               THEN [st.users EXCEPT ![userId].isActive = FALSE] ELSE st.users,
     sessions |-> IF failed = "session.deleteMany" THEN st.sessions
                  ELSE st.sessions \ RowsOf(st.sessions, userId),
     refreshTokens |-> st.refreshTokens]

\* The three store calls of the user.deactivated consumer, started together by
\* Promise.all: each one that does not reject takes effect.
DeactivateStore(st, userId, failed) ==
    [users |-> IF userId \in DOMAIN st.users /\ failed # "user.update"
               THEN [st.users EXCEPT ![userId].isActive = FALSE] ELSE st.users,
     sessions |-> IF failed = "session.deleteMany" THEN st.sessions
                  ELSE st.sessions \ RowsOf(st.sessions, userId),
     refreshTokens |-> IF failed = "refreshToken.deleteMany" THEN st.refreshTokens
                       ELSE st.refreshTokens \ RowsOf(st.refreshTokens, userId)]

Deactivated(userId, failed) ==
    /\ UNCHANGED <<issued, now, nextTok, vIn, vOut, pending>>
    /\ LET st == DeactivateStore(Store, userId, failed) IN
       /\ users' = st.users
       /\ sessions' = st.sessions
       /\ refreshTokens' = st.refreshTokens
    /\ resp' = IF failed # "none"
               THEN [Reply("user.deactivated", -1, "Store call rejected")
                        EXCEPT !.uid = userId, !.info = <<failed>>]
               ELSE IF userId \notin UserIds
               THEN [Reply("user.deactivated", -1, "Record to update not found")
                        EXCEPT !.uid = userId]
               ELSE [Reply("user.deactivated", 0, "") EXCEPT !.uid = userId]

\* Variant of ReactivateStore that also opens a session for the user.
ReactivateStoreWithSession(st, userId) ==
    [users |-> IF userId \in DOMAIN st.users
               THEN [st.users EXCEPT ![userId].isActive = TRUE] ELSE st.users,
     sessions |-> st.sessions \cup {TokenRow(userId, 0, now + SessionExpiresIn)},
     refreshTokens |-> st.refreshTokens]

\* The store call of the user.reactivated consumer: user.update({ isActive: true }).
ReactivateStore(st, userId) ==
    [users |-> IF userId \in DOMAIN st.users
               THEN [st.users EXCEPT ![userId].isActive = TRUE] ELSE st.users,
     sessions |-> st.sessions,
     refreshTokens |-> st.refreshTokens]

Reactivated(userId) ==
    /\ UNCHANGED <<issued, now, nextTok, vIn, vOut, pending>>
    /\ LET st == ReactivateStore(Store, userId) IN
       /\ users' = st.users
       /\ sessions' = st.sessions
       /\ refreshTokens' = st.refreshTokens
    /\ resp' = IF userId \in UserIds
               THEN [Reply("user.reactivated", 0, "") EXCEPT !.uid = userId]
               ELSE [Reply("user.reactivated", -1, "Record to update not found")
                        EXCEPT !.uid = userId]

(***************************************************************************)
(* Jobs.                                                                   *)
(***************************************************************************)
\* Variant of Expired that takes the rows expiring at t too.
ExpiredInclusive(table, t) == {r \in table : r.expiresAt <= t}

\* where: { expiresAt: { lt: now } }
Expired(table, t) == {r \in table : r.expiresAt < t}

cleanupExpiredSessions ==
    /\ UNCHANGED <<users, issued, now, nextTok, vIn, vOut, pending>>
    /\ LET expiredSessions == Expired(sessions, now)
           expiredTokens == Expired(refreshTokens, now)
       IN /\ sessions' = sessions \ expiredSessions
          /\ refreshTokens' = refreshTokens \ expiredTokens
          /\ resp' = [Reply("cleanupExpiredSessions", 0, "") EXCEPT
                        !.event = "auth.sessionsCleanedUp",
                        !.info = <<Cardinality(expiredSessions),
                                   Cardinality(expiredTokens)>>]

(***************************************************************************)
(* The specification.                                                      *)
(***************************************************************************)
\* One request, event or job is served at a time: its outcome stays in resp until it
\* has been sent (Return).
Ready == resp = InitReply

Return ==
    /\ resp # InitReply
    /\ resp' = InitReply
    /\ UNCHANGED <<users, sessions, refreshTokens, issued, now, nextTok, vIn, vOut, pending>>

Next ==
    \/ Ready /\ Tick
    \/ Ready /\ \E e \in Emails \cup {""}, u \in Usernames, p \in RegisterPasswords,
                   r \in RegisterRoles, sl \in HashSalts : Register(e, u, p, r, sl)
    \/ Ready /\ \E x \in Emails \cup Usernames \cup {""}, p \in LoginPasswords : Login(x, p)
    \/ Ready /\ \E t \in TokenValues : RefreshToken(t)
    \/ Ready /\ \E h \in Headers : Me(h)
    \/ Ready /\ \E h \in Headers : Logout(h)
    \/ Ready /\ \E h \in Headers : LogoutAll(h)
    \/ Ready /\ \E h \in Headers : ChangePassword(h)
    \/ Ready /\ \E e \in EventEmails, p \in EventPasswords, hp \in EventHashes,
                   r \in EventRoles, act \in EventActive : UserCreated(e, p, hp, r, act)
    \/ Ready /\ \E id \in EventUserIds : ProfileUpdated(id)
    \/ Ready /\ \E id \in EventUserIds, failed \in StoreCalls : Deactivated(id, failed)
    \/ Ready /\ \E id \in EventUserIds : Reactivated(id)
    \/ Ready /\ cleanupExpiredSessions
    \/ Return

Spec == Init /\ [][Next]_vars

\* A User row's role rewritten in the store from outside the service (no handler of the
\* service changes a role or an email).
EditUser ==
    /\ \E id \in UserIds, r \in Roles :
          /\ users[id].role # r
          /\ users' = [users EXCEPT ![id].role = r]
    /\ UNCHANGED <<sessions, refreshTokens, issued, now, nextTok, resp, vIn, vOut, pending>>

\* Registration (always with role ADMIN) and refresh, with such rewrites between them.
NextEdit ==
    \/ Ready /\ Tick
    \/ Ready /\ \E e \in Emails, u \in Usernames, sl \in HashSalts :
                   Register(e, u, pwA, "ADMIN", sl)
    \/ Ready /\ \E t \in TokenValues : RefreshToken(t)
    \/ Ready /\ EditUser
    \/ Return

SpecEdit == Init /\ [][NextEdit]_vars

(***************************************************************************)
(* Interleaved requests: a handler is a sequence of store calls, and other *)
(* handlers run between two of them.  A request that has made its first   *)
(* call waits in pending for its next one.                                 *)
(***************************************************************************)
MaxPending == 2

FreeSlots == (1 .. MaxPending) \ {p.req : p \in pending}

\* register up to the answer of findFirst: rejected, or on to bcrypt.hash and create.
RegisterFind(email, username) ==
    /\ FreeSlots # {}
    /\ UNCHANGED <<users, sessions, refreshTokens, issued, now, nextTok, vIn, vOut>>
    /\ IF email = "" \/ username = ""
       THEN /\ resp' = Reply("register", 400, "Email, username, and password are required")
            /\ UNCHANGED pending
       ELSE IF \E id \in UserIds : users[id].email = email \/ users[id].username = username
       THEN /\ resp' = Reply("register", 400,
                             "User with this email or username already exists")
            /\ UNCHANGED pending
       ELSE /\ pending' = pending \cup
                  {[req |-> CHOOSE n \in FreeSlots : \A m \in FreeSlots : n <= m,
                    op |-> "register", email |-> email, username |-> username]}
            /\ UNCHANGED resp

\* register from prisma.user.create on: a rejected create is caught by the handler.
RegisterCreate(p) ==
    /\ p.op = "register"
    /\ pending' = pending \ {p}
    /\ UNCHANGED <<sessions, now, vIn, vOut>>
    /\ LET created == userCreate(UserRow(p.email, p.username,
                                         registerHash(pwA, "saltA"), "USER", TRUE))
           accessToken == jwtSign(created.uid, p.email, "USER")
       IN IF ~created.ok
          THEN /\ resp' = [Reply("register", 500, "Failed to register user")
                              EXCEPT !.info = <<p.req>>]
               /\ UNCHANGED <<users, refreshTokens, issued, nextTok>>
          ELSE /\ nextTok < MaxTok
               /\ users' = created.users
               /\ nextTok' = nextTok + 1
               /\ refreshTokens' = refreshTokens \cup
                     {TokenRow(created.uid, nextTok + 1, now + RefreshTokenExpiresIn)}
               /\ issued' = Keep(accessToken)
               /\ resp' = [Reply("register", 201, "") EXCEPT
                             !.access = accessToken, !.event = "user.registered",
                             !.uid = created.uid, !.info = <<nextTok + 1>>, !.pw = pwA]

NextRace ==
    \/ Ready /\ \E e \in Emails \cup {""}, u \in Usernames : RegisterFind(e, u)
    \/ Ready /\ \E p \in pending : RegisterCreate(p)
    \/ Ready /\ \E e \in EventEmails, p \in EventPasswords, hp \in EventHashes,
                   r \in EventRoles, act \in EventActive : UserCreated(e, p, hp, r, act)
    \/ Return

SpecRace == Init /\ [][NextRace]_vars

(***************************************************************************)
(* A cascade of which one deleteMany rejects, and the caller's retry.      *)
(***************************************************************************)
ChangePasswordWith(header, failed) ==
    /\ UNCHANGED <<issued, now, nextTok, vIn, vOut, pending>>
    /\ LET a == authenticateToken("changePassword", header) IN
       IF a.status # 0
       THEN /\ resp' = a
            /\ UNCHANGED <<users, sessions, refreshTokens>>
       ELSE \E c \in CurrentPasswords, n \in NewPasswords, sl \in HashSalts :
               changePasswordWith(a, c, n, sl, failed)

\* The reply of a cascade of which one deleteMany was rejected.
CascadeFailed(r) ==
    /\ r.op \in {"logoutAll", "changePassword", "user.deactivated"}
    /\ r.status \in {500, -1}
    /\ r.info # <<>>

\* The same request (same token, same body) or the same event sent again after a
\* failed cascade, the store being available.
Retry ==
    /\ CascadeFailed(resp)
    /\ LET header == [scheme |-> "Bearer", tok |-> resp.bearer] IN
       \/ /\ resp.op = "logoutAll"
          /\ LogoutAllWith(header, "none")
       \/ /\ resp.op = "changePassword"
          /\ UNCHANGED <<issued, now, nextTok, vIn, vOut, pending>>
          /\ \E sl \in HashSalts :
                changePasswordWith(authenticateToken("changePassword", header),
                                   resp.info[2], resp.info[3], sl, "none")
       \/ /\ resp.op = "user.deactivated"
          /\ Deactivated(resp.uid, "none")

NextCascade ==
    \/ Ready /\ \E r \in RegisterRoles, sl \in HashSalts :
                   Register("a@x.com", "a", pwA, r, sl)
    \/ Ready /\ \E p \in {pwA, pwB} : Login("a@x.com", p)
    \/ Ready /\ \E h \in Headers, failed \in StoreCalls : LogoutAllWith(h, failed)
    \/ Ready /\ \E h \in Headers, failed \in StoreCalls : ChangePasswordWith(h, failed)
    \/ Ready /\ \E id \in EventUserIds, failed \in StoreCalls : Deactivated(id, failed)
    \/ Ready /\ \E id \in EventUserIds : Reactivated(id)
    \/ Retry
    \/ Return

SpecCascade == Init /\ [][NextCascade]_vars

(***************************************************************************)
(* The delete operations, one store call per step.  An operation in flight *)
(* waits in pending with the store calls it has not made yet: calls is the *)
(* list of them, in order for awaited calls (par = FALSE), in any order    *)
(* for the calls of a Promise.all (par = TRUE).                            *)
(***************************************************************************)
MaxSweepTok == 5

Call(table, by, arg) == [table |-> table, by |-> by, arg |-> arg]

\* Variant of sweepCutoff that reads the clock again at each deleteMany.
sweepCutoffLate(captured) == now

\* const now = new Date(): both deleteMany of a sweep compare with this value.
sweepCutoff(captured) == captured

\* The rows a deleteMany removes from its table.
Matching(table, call) ==
    IF call.by = "expired" THEN Expired(table, call.arg)
    ELSE IF call.by = "userId" THEN RowsOf(table, call.arg)
    ELSE table \ LogoutKeeps(table, call.arg)

\* One store call applied to a store.
ApplyCall(st, call) ==
    IF call.table = "session"
    THEN [st EXCEPT !.sessions = st.sessions \ Matching(st.sessions, call)]
    ELSE IF call.table = "refreshToken"
    THEN [st EXCEPT !.refreshTokens = st.refreshTokens \ Matching(st.refreshTokens, call)]
    ELSE IF call.arg \in DOMAIN st.users
    THEN [st EXCEPT !.users = [st.users EXCEPT ![call.arg].isActive = FALSE]]
    ELSE st

InFlight(o, a, id, par, calls) ==
    [req |-> CHOOSE n \in FreeSlots : \A m \in FreeSlots : n <= m,
     op |-> o, a |-> a, uid |-> id, par |-> par, calls |-> calls,
     counts |-> <<>>, rejected |-> FALSE]

\* cleanupExpiredSessions up to its first deleteMany.
SweepBegin ==
    /\ FreeSlots # {}
    /\ pending' = pending \cup
          {InFlight("cleanupExpiredSessions", Reply("cleanupExpiredSessions", 0, ""),
                    0, FALSE,
                    <<Call("session", "expired", now),
                      Call("refreshToken", "expired", now)>>)}
    /\ UNCHANGED <<users, sessions, refreshTokens, issued, now, nextTok, resp, vIn, vOut>>

\* logout up to its first deleteMany.
LogoutBegin(header, refreshToken, sessionToken) ==
    /\ FreeSlots # {}
    /\ UNCHANGED <<users, sessions, refreshTokens, issued, now, nextTok, vIn, vOut>>
    /\ LET a == authenticateToken("logout", header) IN
       IF a.status # 0
       THEN resp' = a /\ UNCHANGED pending
       ELSE /\ pending' = pending \cup
                  {InFlight("logout", a, a.reqUser.userId, FALSE,
                     (IF refreshToken # 0
                      THEN <<Call("refreshToken", "token", refreshToken)>> ELSE <<>>)
                     \o (IF sessionToken # 0
                         THEN <<Call("session", "token", sessionToken)>> ELSE <<>>))}
            /\ UNCHANGED resp

\* logoutAll up to its Promise.all.
LogoutAllBegin(header) ==
    /\ FreeSlots # {}
    /\ UNCHANGED <<users, sessions, refreshTokens, issued, now, nextTok, vIn, vOut>>
    /\ LET a == authenticateToken("logoutAll", header)
           userId == a.reqUser.userId
       IN IF a.status # 0
          THEN resp' = a /\ UNCHANGED pending
          ELSE IF userId = 0
          THEN /\ resp' = [a EXCEPT !.status = 401, !.error = "User not authenticated"]
               /\ UNCHANGED pending
          ELSE /\ pending' = pending \cup
                     {InFlight("logoutAll", a, userId, TRUE,
                               <<Call("session", "userId", userId),
                                 Call("refreshToken", "userId", userId)>>)}
               /\ UNCHANGED resp

\* changePassword up to its Promise.all: the checks and the write of the new password.
ChangePasswordBegin(header, currentPassword, newPassword, sl) ==
    /\ FreeSlots # {}
    /\ UNCHANGED <<sessions, refreshTokens, issued, now, nextTok, vIn, vOut>>
    /\ LET a == authenticateToken("changePassword", header)
           checked == changePasswordCheck(a, currentPassword, newPassword)
           userId == a.reqUser.userId
       IN IF a.status # 0
          THEN resp' = a /\ UNCHANGED <<users, pending>>
          ELSE IF checked.status # 0
          THEN resp' = checked /\ UNCHANGED <<users, pending>>
          ELSE /\ users' = [users EXCEPT
                              ![userId].password = changeHash(newPassword, sl)]
               /\ pending' = pending \cup
                     {InFlight("changePassword", [a EXCEPT !.pw = newPassword],
                               userId, TRUE,
                               <<Call("session", "userId", userId),
                                 Call("refreshToken", "userId", userId)>>)}
               /\ UNCHANGED resp

\* The user.deactivated consumer up to its Promise.all.
DeactivatedBegin(userId) ==
    /\ FreeSlots # {}
    /\ pending' = pending \cup
          {InFlight("user.deactivated", Reply("user.deactivated", 0, ""), userId, TRUE,
                    <<Call("user", "update", userId),
                      Call("session", "userId", userId),
                      Call("refreshToken", "userId", userId)>>)}
    /\ UNCHANGED <<users, sessions, refreshTokens, issued, now, nextTok, resp, vIn, vOut>>

Without(calls, i) == SubSeq(calls, 1, i - 1) \o SubSeq(calls, i + 1, Len(calls))

\* The operation p makes the i-th of its remaining store calls.
StoreCall(p, i) ==
    /\ i \in DOMAIN p.calls
    /\ p.par \/ i = 1
    /\ LET call == IF p.calls[i].by = "expired"
                   THEN [p.calls[i] EXCEPT !.arg = sweepCutoff(p.calls[i].arg)]
                   ELSE p.calls[i]
           st == ApplyCall(Store, call)
           count == Cardinality(sessions \ st.sessions)
                    + Cardinality(refreshTokens \ st.refreshTokens)
       IN /\ users' = st.users
          /\ sessions' = st.sessions
          /\ refreshTokens' = st.refreshTokens
          /\ pending' = (pending \ {p}) \cup
                {[p EXCEPT !.calls = Without(p.calls, i),
                           !.counts = IF p.op = "cleanupExpiredSessions"
                                      THEN Append(p.counts, count) ELSE p.counts,
                           !.rejected = p.rejected
                                        \/ (call.table = "user" /\ call.arg \notin UserIds)]}
    /\ UNCHANGED <<issued, now, nextTok, resp, vIn, vOut>>

\* The operation p has made all its store calls: it publishes its event and answers.
Finish(p) ==
    /\ p.calls = <<>>
    /\ pending' = pending \ {p}
    /\ resp' = IF p.op = "cleanupExpiredSessions"
               THEN [p.a EXCEPT !.event = "auth.sessionsCleanedUp", !.info = p.counts]
               ELSE IF p.op = "logout"
               THEN [p.a EXCEPT !.status = 200, !.event = "user.loggedOut", !.uid = p.uid]
               ELSE IF p.op = "logoutAll"
               THEN [p.a EXCEPT !.status = 200, !.event = "user.loggedOutAll",
                                !.uid = p.uid]
               ELSE IF p.op = "changePassword"
               THEN [p.a EXCEPT !.status = 200, !.event = "user.passwordChanged",
                                !.uid = p.uid]
               ELSE IF p.rejected
               THEN [p.a EXCEPT !.status = -1, !.error = "Record to update not found",
                                !.uid = p.uid]
               ELSE [p.a EXCEPT !.uid = p.uid]
    /\ UNCHANGED <<users, sessions, refreshTokens, issued, now, nextTok, vIn, vOut>>

\* The bodies of the logout requests: the tokens of the first login, or the session
\* token alone.
LogoutBodies ==
    {[refreshToken |-> 2, sessionToken |-> 3], [refreshToken |-> 0, sessionToken |-> 3]}

\* Rows are created while no delete operation is in flight.
Quiet == Ready /\ pending = {}

NextSweep ==
    \/ Ready /\ Tick
    \/ Quiet /\ \E r \in RegisterRoles, sl \in HashSalts :
                   Register("a@x.com", "a", pwA, r, sl)
    \/ Quiet /\ \E id \in LoginMatches("a@x.com") :
                   LoginWithin(MaxSweepTok, "a@x.com", pwA, id)
    \/ Ready /\ SweepBegin
    \/ Ready /\ \E h \in Headers, body \in LogoutBodies :
                   LogoutBegin(h, body.refreshToken, body.sessionToken)
    \/ Ready /\ \E h \in Headers : LogoutAllBegin(h)
    \/ Ready /\ \E h \in Headers, c \in {pwA}, n \in {pwB}, sl \in HashSalts :
                   ChangePasswordBegin(h, c, n, sl)
    \/ Ready /\ \E id \in {1, UnknownUserId} : DeactivatedBegin(id)
    \/ Ready /\ \E p \in pending, i \in 1 .. 3 : StoreCall(p, i)
    \/ Ready /\ \E p \in pending : Finish(p)
    \/ Return

SpecSweep == Init /\ [][NextSweep]_vars

(***************************************************************************)
(* Several devices: a user logged in more than once.                       *)
(***************************************************************************)
MaxDeviceTok == 5

LoginDevice(emailOrUsername, password) ==
    IF LoginMatches(emailOrUsername) = {}
    THEN LoginWithin(MaxDeviceTok, emailOrUsername, password, 0)
    ELSE \E id \in LoginMatches(emailOrUsername) :
            LoginWithin(MaxDeviceTok, emailOrUsername, password, id)

NextDevices ==
    \/ Ready /\ \E sl \in HashSalts : Register("a@x.com", "a", pwA, "USER", sl)
    \/ Ready /\ \E e \in EventEmails :
                   UserCreated(e, hashPasswordSHA256(pwA), Undefined, "USER", TRUE)
    \/ Ready /\ \E x \in Emails, p \in {pwA, pwB} : LoginDevice(x, p)
    \/ Ready /\ \E h \in Headers : LogoutAll(h)
    \/ Return

SpecDevices == Init /\ [][NextDevices]_vars

(***************************************************************************)
(* generateAuthStats, one count per step, beside the operations that write *)
(* User rows.                                                              *)
(***************************************************************************)
Counts == {"totalUsers", "activeUsers", "activeSessions", "activeTokens"}

\* generateAuthStats up to its Promise.all: the four counts are started, the two
\* new Date() of their where clauses are read.
StatsBegin ==
    /\ FreeSlots # {}
    /\ pending' = pending \cup
          {[req |-> CHOOSE n \in FreeSlots : \A m \in FreeSlots : n <= m,
            op |-> "generateAuthStats", uid |-> 0, date |-> now, todo |-> Counts,
            stats |-> [c \in Counts |-> 0]]}
    /\ UNCHANGED <<users, sessions, refreshTokens, issued, now, nextTok, resp, vIn, vOut>>

\* What one count of the Promise.all reads.
CountOf(c, date) ==
    IF c = "totalUsers" THEN Len(users)
    ELSE IF c = "activeUsers" THEN Cardinality({id \in UserIds : users[id].isActive})
    ELSE IF c = "activeSessions" THEN Cardinality({r \in sessions : r.expiresAt > date})
    ELSE Cardinality({r \in refreshTokens : r.expiresAt > date})

\* One of the four counts is answered by the store.
StatsCount(p, c) ==
    /\ p.op = "generateAuthStats" /\ c \in p.todo
    /\ pending' = (pending \ {p}) \cup
          {[p EXCEPT !.todo = p.todo \ {c}, !.stats[c] = CountOf(c, p.date)]}
    /\ UNCHANGED <<users, sessions, refreshTokens, issued, now, nextTok, resp, vIn, vOut>>

\* The four counts are in: the stats are put together and published.
StatsFinish(p) ==
    /\ p.op = "generateAuthStats" /\ p.todo = {}
    /\ pending' = pending \ {p}
    /\ resp' = [Reply("generateAuthStats", 0, "") EXCEPT
                  !.event = "auth.statisticsGenerated",
                  !.info = <<p.stats["totalUsers"], p.stats["activeUsers"],
                             p.stats["activeSessions"], p.stats["activeTokens"],
                             p.stats["totalUsers"] - p.stats["activeUsers"]>>]
    /\ UNCHANGED <<users, sessions, refreshTokens, issued, now, nextTok, vIn, vOut>>

NextStats ==
    \/ Ready /\ \E r \in RegisterRoles, sl \in HashSalts :
                   Register("a@x.com", "a", pwA, r, sl)
    \/ Ready /\ \E e \in EventEmails :
                   UserCreated(e, hashPasswordSHA256(pwA), Undefined, "USER", TRUE)
    \/ Ready /\ \E id \in UserIds : Deactivated(id, "none")
    \/ Ready /\ \E id \in UserIds : Reactivated(id)
    \/ Ready /\ StatsBegin
    \/ Ready /\ \E p \in pending, c \in Counts : StatsCount(p, c)
    \/ Ready /\ \E p \in pending : StatsFinish(p)
    \/ Return

SpecStats == Init /\ [][NextStats]_vars

(***************************************************************************)
(* login, one store call per step, beside the user.deactivated consumer.   *)
(***************************************************************************)
\* login up to the answer of verifyPassword: rejected, or on with the user row that
\* findFirst returned.
LoginFind(emailOrUsername, password) ==
    /\ FreeSlots # {}
    /\ UNCHANGED <<users, sessions, refreshTokens, issued, now, nextTok, vIn, vOut>>
    /\ LET found == LoginMatches(emailOrUsername)
           Fail(st, er) == resp' = Reply("login", st, er) /\ UNCHANGED pending
       IN IF emailOrUsername = "" \/ ~Truthy(password)
          THEN Fail(400, "Email/username and password are required")
          ELSE IF found = {} THEN Fail(401, "Invalid credentials")
          ELSE \E id \in found :
                 LET v == verifyPassword(password, users[id].password) IN
                 IF v.result = "throw" THEN Fail(500, "Failed to login")
                 ELSE IF v.result = "false" THEN Fail(401, "Invalid credentials")
                 ELSE /\ pending' = pending \cup
                            {[req |-> CHOOSE n \in FreeSlots : \A m \in FreeSlots : n <= m,
                              op |-> "login", uid |-> id, user |-> users[id],
                              password |-> password, access |-> NoAccess,
                              refreshToken |-> 0]}
                      /\ UNCHANGED resp

\* login from jwt.sign to prisma.refreshToken.create.
LoginRefresh(p) ==
    /\ p.op = "login" /\ p.refreshToken = 0
    /\ nextTok < MaxDeviceTok
    /\ nextTok' = nextTok + 1
    /\ refreshTokens' = refreshTokens \cup
          {TokenRow(p.uid, nextTok + 1, now + RefreshTokenExpiresIn)}
    /\ pending' = (pending \ {p}) \cup
          {[p EXCEPT !.access = jwtSign(p.uid, p.user.email, p.user.role),
                     !.refreshToken = nextTok + 1]}
    /\ UNCHANGED <<users, sessions, issued, now, resp, vIn, vOut>>

\* login from prisma.session.create to its answer.
LoginSession(p) ==
    /\ p.op = "login" /\ p.refreshToken # 0
    /\ nextTok < MaxDeviceTok
    /\ nextTok' = nextTok + 1
    /\ sessions' = sessions \cup {TokenRow(p.uid, nextTok + 1, now + SessionExpiresIn)}
    /\ pending' = pending \ {p}
    /\ issued' = Keep(p.access)
    /\ resp' = [Reply("login", 200, "") EXCEPT
                  !.access = p.access, !.event = "user.loggedIn", !.uid = p.uid,
                  !.info = <<p.refreshToken, nextTok + 1>>, !.pw = p.password]
    /\ UNCHANGED <<users, refreshTokens, now, vIn, vOut>>

NextLoginRace ==
    \/ Ready /\ \E r \in RegisterRoles, sl \in HashSalts :
                   Register("a@x.com", "a", pwA, r, sl)
    \/ Ready /\ \E x \in {"a@x.com", "a"}, password \in LoginPasswords :
                   LoginFind(x, password)
    \/ Ready /\ \E p \in pending : LoginRefresh(p)
    \/ Ready /\ \E p \in pending : LoginSession(p)
    \/ Ready /\ \E id \in EventUserIds : Deactivated(id, "none")
    \/ Return

SpecLoginRace == Init /\ [][NextLoginRace]_vars

(***************************************************************************)
(* Properties.                                                             *)
(***************************************************************************)
Bool(b) == IF b THEN "true" ELSE "false"

\* The shapes, read off the stored string itself.
AdaptiveShape(x) ==
    x.typ = "string" /\ x.pre \in {"$2a$", "$2b$", "$2y$"} /\ x.digits \in {1, 2}
    /\ x.len = 58 + x.digits

Hex64Shape(x) == x.typ = "string" /\ x.len = 64 /\ x.cs \in {"hexlower", "hexupper"}

C2_ShapeDispatch ==
    (vOut # Idle /\ vIn.stored.typ = "string" /\ vIn.plain.typ = "string") =>
        LET p == vIn.plain
            s == vIn.stored
        IN /\ AdaptiveShape(s) =>
                vOut.log = "bcrypt" /\ vOut.result = BcryptCompare(p, s)
           /\ (~AdaptiveShape(s) /\ Hex64Shape(s)) =>
                vOut.log = "sha256" /\ vOut.result = Bool(hashPasswordSHA256(p) = s)
           /\ (~AdaptiveShape(s) /\ ~Hex64Shape(s)) =>
                vOut.log = "direct" /\ vOut.result = Bool(p = s)

\* A 64-hex stored string equal to the typed password: plain equality would accept it.
C2_Witness ==
    /\ vOut # Idle
    /\ Hex64Shape(vIn.stored)
    /\ vIn.plain = vIn.stored
    /\ vOut = [result |-> "false", log |-> "sha256"]

\* C3 as stated: verifyPassword never throws; it answers true or false.
C3_NeverThrows == vOut # Idle => vOut.result \in {"true", "false"}

ProtectedOps == {"me", "logout", "logoutAll", "changePassword"}

Succeeded == resp.status \in {200, 201} \/ (resp.op = "user.created" /\ resp.status = 0)

\* C4 as stated: the credential written by register, changePassword or the user.created
\* consumer has the adaptive shape.
C4_Original ==
    (resp.op \in {"register", "changePassword", "user.created"} /\ Succeeded)
        => AdaptiveShape(users[resp.uid].password)

\* C4 (amended): the credential written by register or changePassword has the adaptive
\* shape, and verifying the submitted password against it succeeds on the bcrypt path.
C4_NewCredentialsAdaptive ==
    (resp.op \in {"register", "changePassword"} /\ Succeeded) =>
        /\ AdaptiveShape(users[resp.uid].password)
        /\ verifyPassword(resp.pw, users[resp.uid].password)
             = [result |-> "true", log |-> "bcrypt"]

C4_Witness == resp.op = "changePassword" /\ resp.status = 200

InvalidToken == [status |-> 403, error |-> "Invalid or expired token"]
TokenRequired == [status |-> 401, error |-> "Access token required"]
Outcome(r) == [status |-> r.status, error |-> r.error]

\* C5: a token signed by the service and presented on a protected route attaches its
\* own {userId, email, role} to the request while now < exp, and from exp on is
\* rejected as invalid.
C5_AccessTokenRoundTrip ==
    (resp.op \in ProtectedOps /\ resp.bearer.form = "jwt" /\ resp.bearer.key = "JWT_SECRET")
        => IF now < resp.bearer.exp
           THEN /\ resp.reqUser.userId = resp.bearer.userId
                /\ resp.reqUser.email = resp.bearer.email
                /\ resp.reqUser.role = resp.bearer.role
                /\ resp.reqUser.userId \in UserIds
                /\ Outcome(resp) # InvalidToken
           ELSE Outcome(resp) = InvalidToken /\ resp.reqUser = NoAccess

C5_Witness ==
    /\ resp.op = "me"
    /\ resp.bearer.form = "jwt" /\ resp.bearer.key = "JWT_SECRET"
    /\ now > resp.bearer.exp
    /\ Outcome(resp) = InvalidToken

\* C6: on a protected route, no bearer token gives "Access token required"; a garbage,
\* wrongly signed or expired token gives one and the same "Invalid or expired token"
\* reply, which differs from the reply for a missing token and from authorizeRole's
\* reply for an insufficient role; in both cases the store is untouched and no event
\* is published.
C6_Step ==
    (resp = InitReply /\ resp'.op \in ProtectedOps) =>
        LET t == resp'.bearer
            bad == t.form = "garbage" \/ t.key # "JWT_SECRET" \/ now >= t.exp
            rejected == Outcome(resp') \in {InvalidToken, TokenRequired}
        IN /\ t.form = "none" => Outcome(resp') = TokenRequired
           /\ (t.form # "none" /\ bad) => Outcome(resp') = InvalidToken
           /\ (t.form # "none" /\ ~bad) => ~rejected
           /\ InvalidToken # TokenRequired
           /\ \A rl \in Roles :
                Outcome(authorizeRole(resp'.op, {rl}, [t EXCEPT !.form = "jwt", !.role = "none"]))
                    \notin {InvalidToken, TokenRequired}
           /\ rejected => /\ UNCHANGED <<users, sessions, refreshTokens, issued, nextTok>>
                          /\ resp'.event = "" /\ resp'.reqUser = NoAccess

C6_RejectionsUniform == [][C6_Step]_vars

C6_Witness ==
    /\ resp.op = "changePassword"
    /\ resp.bearer.key = "other-key"
    /\ Outcome(resp) = InvalidToken

RefreshRows == {r \in refreshTokens : resp.info # <<>> /\ r.token = resp.info[1]}

InvalidRefresh == [status |-> 401, error |-> "Invalid or expired refresh token"]
InactiveAccount == [status |-> 401, error |-> "User account is inactive"]

\* C7: refresh with a token value that has no row, or whose row has expiresAt < now,
\* is answered "Invalid or expired refresh token", mints no access token and
\* publishes no event.
C7_RefreshRejectsUnknownOrExpired ==
    (/\ resp.op = "refresh" /\ resp.info # <<>>
     /\ RefreshRows = {} \/ \E r \in RefreshRows : r.expiresAt < now)
        => /\ Outcome(resp) = InvalidRefresh
           /\ resp.access = NoAccess
           /\ resp.event = ""

C7_Witness ==
    /\ resp.op = "refresh"
    /\ \E r \in RefreshRows : r.expiresAt < now
    /\ Outcome(resp) = InvalidRefresh

\* C8: refresh with a live, unexpired row whose owner is inactive is answered "User
\* account is inactive", a reply different from the one for an unknown or expired
\* token, and mints no access token.
C8_RefreshRejectsInactive ==
    (/\ resp.op = "refresh"
     /\ \E r \in RefreshRows : r.expiresAt >= now /\ ~users[r.userId].isActive)
        => /\ Outcome(resp) = InactiveAccount
           /\ Outcome(resp) # InvalidRefresh
           /\ resp.access = NoAccess
           /\ resp.event = ""

C8_Witness ==
    /\ resp.op = "refresh"
    /\ \E r \in RefreshRows : r.expiresAt >= now /\ ~users[r.userId].isActive
    /\ Outcome(resp) = InactiveAccount

\* C9: the access token a successful refresh mints carries the userId, email and role
\* of the row's owner as the store holds them at the refresh.
C9_RefreshReadsCurrentUser ==
    (resp.op = "refresh" /\ resp.status = 200) =>
        \E r \in RefreshRows :
            /\ resp.access.form = "jwt"
            /\ resp.access.userId = r.userId
            /\ resp.access.email = users[r.userId].email
            /\ resp.access.role = users[r.userId].role

\* Under SpecEdit every user registered as ADMIN: the role was rewritten since.
C9_Witness ==
    /\ resp.op = "refresh" /\ resp.status = 200
    /\ resp.access.role = "USER"

\* C10: once the user.deactivated consumer has processed an event for user u, u is
\* inactive and has no Session and no RefreshToken row, every other user's row and
\* token rows are as before, and processing the same event again changes nothing.
C10_Step ==
    (resp = InitReply /\ resp'.op = "user.deactivated" /\ resp'.status = 0) =>
        LET u == resp'.uid
            post == [users |-> users', sessions |-> sessions',
                     refreshTokens |-> refreshTokens']
        IN /\ ~users'[u].isActive
           /\ RowsOf(sessions', u) = {} /\ RowsOf(refreshTokens', u) = {}
           /\ DOMAIN users' = DOMAIN users
           /\ \A v \in UserIds \ {u} :
                /\ users'[v] = users[v]
                /\ RowsOf(sessions', v) = RowsOf(sessions, v)
                /\ RowsOf(refreshTokens', v) = RowsOf(refreshTokens, v)
           /\ users'[u] = [users[u] EXCEPT !.isActive = FALSE]
           /\ DeactivateStore(post, u, "none") = post

C10_DeactivatedIdempotent == [][C10_Step]_vars

C10_Witness ==
    /\ resp.op = "user.deactivated" /\ resp.status = 0
    /\ \E v \in UserIds \ {resp.uid} : RowsOf(refreshTokens, v) # {}

\* C11: whatever the interleaving of register requests and user.created events, no two
\* User rows share an email or a username; a user.created event for an email that has
\* a row already leaves the table as it is (one row for the email, the fields of the
\* first application).
C11_Step ==
    /\ \A i, j \in DOMAIN users' :
          i # j => /\ users'[i].email # users'[j].email
                   /\ users'[i].username # users'[j].username
    /\ \A e \in EventEmails, p \in EventPasswords, hp \in EventHashes,
          r \in EventRoles, act \in EventActive :
          (UserCreated(e, p, hp, r, act) /\ \E id \in UserIds : users[id].email = e)
              => /\ users' = users
                 /\ Cardinality({id \in DOMAIN users' : users'[id].email = e}) = 1

C11_UniqueUsers == [][C11_Step]_vars

\* The event for b@x.com delivered again after it created the row.
C11_Witness ==
    /\ resp.op = "user.created" /\ resp.error = "Unique constraint failed"
    /\ \E id \in UserIds : /\ users[id].email \in EventEmails
                            /\ users[id].username = users[id].email
                            /\ users[id].password = hashPasswordSHA256(pwA)

\* C12: the row a user.created event creates holds the payload's hashedPassword when
\* the payload has one, and its password otherwise, as the very value that arrived.
C12_Step ==
    \A e \in EventEmails, p \in EventPasswords, hp \in EventHashes,
       r \in EventRoles, act \in EventActive :
       (UserCreated(e, p, hp, r, act) /\ resp'.status = 0)
           => /\ Len(users') = Len(users) + 1
              /\ resp'.uid = Len(users')
              /\ users'[resp'.uid].password = IF hp # Undefined THEN hp ELSE p
              /\ users'[resp'.uid].password \in {p, hp} \ {Undefined}

C12_StoredAsArrived == [][C12_Step]_vars

\* A payload with a password (a SHA-256 digest) and no hashedPassword.
C12_Witness ==
    /\ resp.op = "user.created" /\ resp.status = 0
    /\ users[resp.uid].password = hashPasswordSHA256(pwA)

\* C13: a processed user.reactivated event sets the user's active flag and leaves the
\* Session and RefreshToken tables as they are; from any state, the deactivated
\* consumer followed by the reactivated consumer for user u leaves u active with no
\* session and no refresh token, no row carrying a refresh token value u had before;
\* and refresh with a value that has no row is rejected.
C13_Step ==
    /\ \A id \in UserIds :
          Reactivated(id) => /\ resp'.status = 0
                             /\ users' = [users EXCEPT ![id].isActive = TRUE]
                             /\ sessions' = sessions
                             /\ refreshTokens' = refreshTokens
    /\ \A u \in UserIds :
          LET before == RowsOf(refreshTokens, u)
              off == DeactivateStore(Store, u, "none")
              on == ReactivateStore(off, u)
          IN /\ ~off.users[u].isActive /\ on.users[u].isActive
             /\ RowsOf(on.sessions, u) = {} /\ RowsOf(on.refreshTokens, u) = {}
             /\ \A x \in before : \A r \in on.refreshTokens : r.token # x.token
    /\ \A t \in TokenValues :
          (RefreshToken(t) /\ t # 0 /\ \A r \in refreshTokens : r.token # t)
              => resp'.status = 401 /\ resp'.access = NoAccess

C13_ReactivatedRestoresNothing == [][C13_Step]_vars

\* The only user, who was given tokens and has none left, has just been reactivated.
C13_Witness ==
    /\ resp.op = "user.reactivated" /\ resp.status = 0
    /\ Len(users) = 1 /\ nextTok >= 1
    /\ users[resp.uid].isActive
    /\ RowsOf(sessions, resp.uid) = {} /\ RowsOf(refreshTokens, resp.uid) = {}

\* C14: a logout whose body carries only a sessionToken removes the Session rows with
\* that token value and no RefreshToken row; one whose body carries only a
\* refreshToken removes the RefreshToken rows with that value and no Session row; rows
\* with any other token value stay.
C14_Step ==
    \A h \in Headers :
       LET a == authenticateToken("logout", h) IN
       (resp = InitReply /\ a.status = 0) =>
          /\ \A sessionToken \in TokenValues \ {0} :
                logout(a, 0, sessionToken)
                    => /\ refreshTokens' = refreshTokens
                       /\ sessions' = {r \in sessions : r.token # sessionToken}
                       /\ resp'.status = 200
          /\ \A refreshToken \in TokenValues \ {0} :
                logout(a, refreshToken, 0)
                    => /\ sessions' = sessions
                       /\ refreshTokens' = {r \in refreshTokens : r.token # refreshToken}
                       /\ resp'.status = 200

C14_LogoutFrame == [][C14_Step]_vars

\* One user, registered and logged in on the first day: the session is gone, both
\* refresh tokens are still there.
C14_Witness ==
    /\ resp.op = "logout" /\ resp.status = 200
    /\ Len(users) = 1 /\ now = 0 /\ nextTok = 3
    /\ sessions = {}
    /\ Cardinality(refreshTokens) = 2

\* C15: after a successful logoutAll the authenticated user has no Session row and no
\* RefreshToken row, however many logins had created rows for that user, and every
\* other user's rows, and the User table, are as before.
C15_Step ==
    (resp = InitReply /\ resp'.op = "logoutAll" /\ resp'.status = 200) =>
        LET u == resp'.uid IN
        /\ u = resp'.bearer.userId
        /\ RowsOf(sessions', u) = {} /\ RowsOf(refreshTokens', u) = {}
        /\ sessions' = sessions \ RowsOf(sessions, u)
        /\ refreshTokens' = refreshTokens \ RowsOf(refreshTokens, u)
        /\ \A v \in UserIds \ {u} :
              /\ RowsOf(sessions', v) = RowsOf(sessions, v)
              /\ RowsOf(refreshTokens', v) = RowsOf(refreshTokens, v)
        /\ users' = users

C15_LogoutAllRevokesAll == [][C15_Step]_vars

\* Five token values were drawn: a register and two logins.  The two sessions are gone,
\* and so are the two refresh tokens of the logins; the other user's is there.
C15_Witness ==
    /\ resp.op = "logoutAll" /\ resp.status = 200
    /\ nextTok = MaxDeviceTok
    /\ sessions = {}
    /\ \E v \in UserIds \ {resp.uid} : refreshTokens = RowsOf(refreshTokens, v)
    /\ Cardinality(refreshTokens) = 1

\* C16: a successful changePassword removes every Session and RefreshToken row of the
\* user, so that no row carries a refresh token value the user had (and refresh with a
\* value that has no row is rejected); the rows of other users stay, and a
\* changePassword that is rejected leaves the three tables as they are.
C16_Step ==
    /\ (resp = InitReply /\ resp'.op = "changePassword") =>
          IF resp'.status = 200
          THEN LET u == resp'.uid IN
               /\ u = resp'.bearer.userId
               /\ sessions' = sessions \ RowsOf(sessions, u)
               /\ refreshTokens' = refreshTokens \ RowsOf(refreshTokens, u)
               /\ RowsOf(sessions', u) = {} /\ RowsOf(refreshTokens', u) = {}
               /\ \A x \in RowsOf(refreshTokens, u) :
                     \A r \in refreshTokens' : r.token # x.token
               /\ \A v \in UserIds \ {u} :
                     /\ users'[v] = users[v]
                     /\ RowsOf(sessions', v) = RowsOf(sessions, v)
                     /\ RowsOf(refreshTokens', v) = RowsOf(refreshTokens, v)
          ELSE UNCHANGED <<users, sessions, refreshTokens>>
    /\ \A t \in TokenValues \ {0} :
          (RefreshToken(t) /\ \A r \in refreshTokens : r.token # t)
              => Outcome(resp') = InvalidRefresh

C16_PasswordChangeRevokesAll == [][C16_Step]_vars

\* The user who changed the password had registered or logged in; another user's
\* refresh token is still there.
C16_Witness ==
    /\ resp.op = "changePassword" /\ resp.status = 200
    /\ RowsOf(refreshTokens, resp.uid) = {}
    /\ \E v \in UserIds \ {resp.uid} : RowsOf(refreshTokens, v) # {}

\* C17: one run of the expiry sweep removes exactly the Session and RefreshToken rows
\* with expiresAt < now, keeps every row with expiresAt >= now, and publishes one
\* auth.sessionsCleanedUp event whose two counts are the numbers of rows removed.
C17_Step ==
    (resp = InitReply /\ resp'.op = "cleanupExpiredSessions") =>
        /\ sessions' = {r \in sessions : r.expiresAt >= now}
        /\ refreshTokens' = {r \in refreshTokens : r.expiresAt >= now}
        /\ resp'.event = "auth.sessionsCleanedUp"
        /\ resp'.info = <<Cardinality(sessions) - Cardinality(sessions'),
                          Cardinality(refreshTokens) - Cardinality(refreshTokens')>>
        /\ users' = users

C17_SweepExact == [][C17_Step]_vars

\* One session was removed, and a refresh token that expires at this very instant stays.
C17_Witness ==
    /\ resp.op = "cleanupExpiredSessions"
    /\ resp.info = <<1, 0>>
    /\ \E r \in refreshTokens : r.expiresAt = now

InvalidCredentials == [status |-> 401, error |-> "Invalid credentials"]

\* C18 as stated: a login whose emailOrUsername matches no user, and a login that finds
\* the user and does not accept the password, get one and the same reply, and neither
\* creates a token or session row.
C18_Step ==
    \A x \in Emails \cup Usernames, p \in LoginPasswords \ {Missing} :
       /\ (resp = InitReply /\ LoginMatches(x) = {} /\ LoginAs(x, p, 0))
              => /\ Outcome(resp') = InvalidCredentials
                 /\ UNCHANGED <<users, sessions, refreshTokens>>
       /\ \A id \in LoginMatches(x) :
              (resp = InitReply /\ LoginAs(x, p, id) /\ resp'.status # 200)
                  => /\ Outcome(resp') = InvalidCredentials
                     /\ UNCHANGED <<users, sessions, refreshTokens>>

C18_LoginDoesNotRevealAccount == [][C18_Step]_vars

ValidationErrors ==
    {"Email, username, and password are required",
     "Email/username and password are required",
     "Refresh token is required",
     "Current password and new password are required",
     "New password must be at least 6 characters long"}

\* C19: register, login, refresh and changePassword answer a request that lacks a
\* required field, or whose new password is shorter than 6 characters, with a
\* validation error (status 400); a request answered so leaves the User, Session and
\* RefreshToken rows as they are, draws no token and publishes no event.
C19_Step ==
    resp = InitReply =>
    /\ (/\ resp'.op \in {"register", "login", "refresh", "changePassword"}
        /\ resp'.error \in ValidationErrors)
          => /\ resp'.status = 400
             /\ UNCHANGED <<users, sessions, refreshTokens, nextTok>>
             /\ resp'.event = "" /\ resp'.access = NoAccess
    /\ \A e \in Emails \cup {""}, u \in Usernames, p \in RegisterPasswords,
          r \in RegisterRoles, sl \in HashSalts :
          ((e = "" \/ p = Missing) /\ Register(e, u, p, r, sl))
              => resp'.error \in ValidationErrors
    /\ \A x \in Emails \cup Usernames \cup {""}, p \in LoginPasswords :
          ((x = "" \/ p = Missing) /\ Login(x, p)) => resp'.error \in ValidationErrors
    /\ RefreshToken(0) => resp'.error \in ValidationErrors
    /\ \A h \in Headers, c \in CurrentPasswords, n \in NewPasswords, sl \in HashSalts :
          LET a == authenticateToken("changePassword", h) IN
          (/\ c = Missing \/ n = Missing \/ (n.typ = "string" /\ n.len < 6)
           /\ resp'.op = "changePassword"
           /\ a.status = 0
           /\ changePassword(a, c, n, sl))
              => resp'.error \in ValidationErrors

C19_ValidationChangesNothing == [][C19_Step]_vars

C19_Witness ==
    /\ resp.op = "changePassword"
    /\ resp.error = "New password must be at least 6 characters long"
    /\ RowsOf(refreshTokens, resp.bearer.userId) # {}

Conflict == [status |-> 400, error |-> "User with this email or username already exists"]

\* C20 as stated: a register request that reaches its answer while a user already has
\* its email or its username is answered "User with this email or username already
\* exists" and creates no User row and no RefreshToken row, whether the user was
\* there when the request looked it up or was created by a concurrent request
\* between the lookup and the insert.
C20_Step ==
    resp = InitReply =>
    /\ \A e \in Emails, u \in Usernames :
          (UniqueViolation([email |-> e, username |-> u]) /\ RegisterFind(e, u))
              => Outcome(resp') = Conflict /\ UNCHANGED <<users, refreshTokens>>
    /\ \A p \in pending :
          (UniqueViolation(p) /\ RegisterCreate(p))
              => Outcome(resp') = Conflict /\ UNCHANGED <<users, refreshTokens>>

C20_DuplicateIsConflict == [][C20_Step]_vars

EventOps == {"user.created", "user.profileUpdated", "user.deactivated", "user.reactivated"}

\* An event whose handler ended in its catch block (console.error).
EventFailed(r) == r.op \in EventOps /\ r.status = -1 /\ r.error # "" /\ r.event = ""

\* C21: a user.created with neither password nor hashedPassword, and a profileUpdated,
\* deactivated or reactivated for a userId that has no User row, end in the handler's
\* catch block (the failure is logged), leave the User rows as they are, and the
\* consumers stay subscribed: the failure is handed back like any other outcome and
\* in every state where no message is being handled each of the four consumers can
\* take the next event.
C21_Step ==
    /\ resp = InitReply =>
        /\ \A e \in EventEmails, r \in EventRoles, act \in EventActive :
              UserCreated(e, Undefined, Undefined, r, act)
                  => EventFailed(resp') /\ UNCHANGED storeVars
        /\ \A id \in EventUserIds \ UserIds :
              (\/ ProfileUpdated(id)
               \/ Reactivated(id)
               \/ \E failed \in StoreCalls : Deactivated(id, failed))
                  => EventFailed(resp') /\ resp'.uid = id /\ UNCHANGED users
        /\ ENABLED (\E e \in EventEmails, p \in EventPasswords, hp \in EventHashes,
                       r \in EventRoles, act \in EventActive :
                       UserCreated(e, p, hp, r, act))
        /\ \A id \in EventUserIds :
              /\ ENABLED ProfileUpdated(id)
              /\ ENABLED Deactivated(id, "none")
              /\ ENABLED Reactivated(id)
    /\ EventFailed(resp) => resp' = InitReply /\ UNCHANGED storeVars

C21_EventFailureContained == [][C21_Step]_vars

C21_Witness ==
    /\ EventFailed(resp)
    /\ resp.op = "user.deactivated"
    /\ resp.uid \notin UserIds
    /\ users # <<>>

\* C22 as stated: when one of the two deleteMany of the cascade in logoutAll,
\* changePassword or the user.deactivated consumer is rejected, the handler reports
\* the failure (500, or a logged error), the rows of the deleteMany that went through
\* are gone, and the same request or event sent again with the store available leaves
\* the user with no Session and no RefreshToken row.
C22_Step ==
    /\ (resp = InitReply /\ CascadeFailed(resp')) =>
          LET failed == resp'.info[1]
              u == resp'.uid
          IN /\ failed = "session.deleteMany"
                  => sessions' = sessions /\ RowsOf(refreshTokens', u) = {}
             /\ failed = "refreshToken.deleteMany"
                  => refreshTokens' = refreshTokens /\ RowsOf(sessions', u) = {}
    /\ (CascadeFailed(resp) /\ resp' # InitReply) =>
          /\ resp'.op = resp.op
          /\ RowsOf(sessions', resp.uid) = {}
          /\ RowsOf(refreshTokens', resp.uid) = {}

C22_RetryCompletesCascade == [][C22_Step]_vars

Rows(st) == <<st.sessions, st.refreshTokens>>

StoreNext == [users |-> users', sessions |-> sessions', refreshTokens |-> refreshTokens']

\* The store calls of a list made one after another.
RECURSIVE ApplyCalls(_, _)
ApplyCalls(st, calls) ==
    IF calls = <<>> THEN st ELSE ApplyCalls(ApplyCall(st, Head(calls)), Tail(calls))

\* The operations in flight run to their end one after another, in the order of
\* their request numbers.
RECURSIVE Complete(_, _)
Complete(st, ops) ==
    IF ops = {} THEN st
    ELSE LET p == CHOOSE o \in ops : \A x \in ops : o.req <= x.req
         IN Complete(ApplyCalls(st, p.calls), ops \ {p})

\* C23: the store calls of a sweep and of logout, logoutAll, the changePassword
\* cascade, the user.deactivated cascade and a second sweep commute: in every state two
\* operations in flight run to their end in either order leave the same Session and
\* RefreshToken rows, every interleaved store call leaves unchanged the rows that
\* running the operations in flight one after another ends with, and a deleteMany of
\* a sweep removes only rows with expiresAt before the instant the sweep read at its
\* start.
C23_Step ==
    /\ \A p, q \in pending :
          Rows(ApplyCalls(ApplyCalls(Store, p.calls), q.calls))
              = Rows(ApplyCalls(ApplyCalls(Store, q.calls), p.calls))
    /\ (pending # {} /\ {p.req : p \in pending'} \subseteq {p.req : p \in pending})
          => Rows(Complete(StoreNext, pending')) = Rows(Complete(Store, pending))
    /\ \A p \in pending :
          (p.op = "cleanupExpiredSessions" /\ StoreCall(p, 1))
              => \A r \in (sessions \ sessions') \cup (refreshTokens \ refreshTokens') :
                    r.expiresAt < p.calls[1].arg

C23_SweepCommutes == [][C23_Step]_vars

C23_Witness ==
    \E p, q \in pending :
        /\ p.op = "cleanupExpiredSessions" /\ Len(p.calls) = 1 /\ p.counts[1] > 0
        /\ q.op = "logoutAll" /\ Len(q.calls) = 1
        /\ RowsOf(sessions, q.uid) \cup RowsOf(refreshTokens, q.uid) # {}

\* C24: what authenticateToken answers for a header depends on the token, the key and
\* the clock only: a step that leaves the clock where it is (a deactivation, a logout
\* from all devices, a password change, ...) leaves the answer for every header as it
\* was, and GET /auth/me with a token of the service that has not reached its exp is
\* let through with the token's identity whatever rows the store holds.
C24_Step ==
    /\ now' = now =>
          \A h \in Headers : authenticateToken("me", h)' = authenticateToken("me", h)
    /\ \A h \in Headers :
          (/\ resp = InitReply
           /\ h.scheme = "Bearer" /\ h.tok.form = "jwt" /\ h.tok.key = "JWT_SECRET"
           /\ now < h.tok.exp
           /\ Me(h))
              => /\ resp'.status \notin {401, 403}
                 /\ resp'.reqUser = h.tok

C24_TokenValidityStateless == [][C24_Step]_vars

C24_Witness ==
    /\ resp.op = "me" /\ resp.status = 200
    /\ ~users[resp.uid].isActive
    /\ RowsOf(sessions, resp.uid) \cup RowsOf(refreshTokens, resp.uid) = {}

\* C25 as stated: changePassword accepts as currentPassword every password that login
\* accepts for the stored credential (verifyPassword answers true), whichever encoding
\* the credential has: with such a currentPassword and a well-formed newPassword the
\* password is changed.
C25_Step ==
    resp = InitReply =>
    \A h \in Headers, c \in CurrentPasswords, n \in NewPasswords, sl \in HashSalts :
        LET a == authenticateToken("changePassword", h)
            userId == a.reqUser.userId
        IN (/\ a.status = 0
            /\ userId \in UserIds
            /\ n.typ = "string" /\ n.len >= 6
            /\ verifyPassword(c, users[userId].password).result = "true"
            /\ changePassword(a, c, n, sl))
               => /\ resp'.status = 200
                  /\ verifyPassword(n, users'[userId].password).result = "true"

C25_ChangeAcceptsWhatLoginAccepts == [][C25_Step]_vars

\* C26 as stated: once a login and a user.deactivated for the same user have both run
\* to their end (no login of the user is in flight), the user is inactive and has no
\* Session row and no RefreshToken row.
C26_DeactivatedLeavesNoRows ==
    \A id \in UserIds :
        (/\ ~users[id].isActive
         /\ \A p \in pending : p.uid # id)
            => RowsOf(sessions, id) \cup RowsOf(refreshTokens, id) = {}

\* C27 as stated: a logout leaves the Session and RefreshToken rows of every user other
\* than the authenticated caller as they are, whatever token values its body carries.
C27_Step ==
    resp = InitReply =>
    \A h \in Headers, refreshToken \in TokenValues, sessionToken \in TokenValues :
        LET a == authenticateToken("logout", h) IN
        (a.status = 0 /\ resp'.op = "logout" /\ logout(a, refreshToken, sessionToken))
            => \A id \in UserIds \ {a.reqUser.userId} :
                  /\ RowsOf(sessions', id) = RowsOf(sessions, id)
                  /\ RowsOf(refreshTokens', id) = RowsOf(refreshTokens, id)

C27_LogoutOwnRowsOnly == [][C27_Step]_vars

\* C28 as stated: the counts of a statistics snapshot change no row, and the stats it
\* publishes are consistent whatever runs between its four counts:
\* activeUsers <= totalUsers, inactiveUsers >= 0, and inactiveUsers is no more than
\* the number of User rows there are.
C28_Step ==
    /\ \A p \in pending, c \in Counts : StatsCount(p, c) => UNCHANGED storeVars
    /\ \A p \in pending : StatsFinish(p) =>
          /\ UNCHANGED storeVars
          /\ resp'.event = "auth.statisticsGenerated"
          /\ resp'.info[2] <= resp'.info[1]
          /\ resp'.info[5] >= 0
          /\ resp'.info[5] <= Len(users)

C28_StatsConsistent == [][C28_Step]_vars

====
